---------------------------- MODULE Spec2Model ----------------------------
(* A model of iso9660.py: the ISO9660 image reader.  The image is a file  *)
(* of 2048-byte sectors, held byte by byte; the reader's state is the     *)
(* working buffer (_buff), the primary volume descriptor (_pvd), the root *)
(* record (_root) and the path table (_paths).  Every decoder below reads *)
(* the bytes the code reads, in the code's order, and fails where the     *)
(* Python code raises.                                                    *)
EXTENDS Integers, Sequences, FiniteSets

VARIABLES
  img,        \* the image file opened, as it was authored
  disk,       \* the image file's bytes: sector number -> the sector's bytes
  pc,         \* where the reader is: "scan" "ptable" "ready" "failed" "dir"
  sector,     \* __init__: the next descriptor sector to fetch
  l0,         \* __init__: path table bytes still to consume
  fetched,    \* the sectors fetched by the descriptor scan, in order (ghost)
  pvd,        \* self._pvd
  root,       \* self._root
  paths,      \* self._paths
  buff,       \* self._buff: the fetched range and the cursor in it
  err,        \* the exception that ended the last operation ("" if none)
  dgen,       \* a running _unpack_dir_children generator
  dout,       \* the records that generator has yielded
  tgen,       \* a running tree(True) generator: status and frames
  delivered,  \* the items tree(True) has yielded to its caller
  dirlist,    \* the result of the last tree(False) listing
  gf,         \* the outcome of the last get_file call
  calls       \* get_file calls made so far

vars == <<img, disk, pc, sector, l0, fetched, pvd, root, paths, buff, err,
          dgen, dout, tgen, delivered, dirlist, gf, calls>>

-----------------------------------------------------------------------------
(* Sequences of bytes *)

SECTOR_SIZE == 2048

Min(a, b) == IF a < b THEN a ELSE b
Max(a, b) == IF a > b THEN a ELSE b

RECURSIVE Flatten(_)
Flatten(ss) == IF ss = <<>> THEN <<>> ELSE Head(ss) \o Flatten(Tail(ss))

Rep(n, v) == [i \in 1..n |-> v]

Range(s) == {s[i] : i \in 1..Len(s)}

\* bytes.rstrip(b' ')
RECURSIVE rstrip(_)
rstrip(s) ==
  IF s # <<>> /\ s[Len(s)] = 32 THEN rstrip(SubSeq(s, 1, Len(s) - 1)) ELSE s

\* bytes.strip(b'/')
RECURSIVE strip_slash(_)
strip_slash(s) ==
  IF s # <<>> /\ s[1] = 47 THEN strip_slash(Tail(s))
  ELSE IF s # <<>> /\ s[Len(s)] = 47
       THEN strip_slash(SubSeq(s, 1, Len(s) - 1))
       ELSE s

\* bytes.split(sep): the pieces of s between the separators
RECURSIVE split_from(_, _, _)
split_from(s, sep, cur) ==
  IF s = <<>> THEN <<cur>>
  ELSE IF s[1] = sep THEN <<cur>> \o split_from(Tail(s), sep, <<>>)
       ELSE split_from(Tail(s), sep, Append(cur, s[1]))

split(s, sep) == split_from(s, sep, <<>>)

\* bytes.upper(): ASCII a-z to A-Z
upper(s) == [i \in 1..Len(s) |-> IF s[i] >= 97 /\ s[i] <= 122 THEN s[i] - 32 ELSE s[i]]

\* name + b"/" + s
spacer(name, s) == name \o <<47>> \o s

-----------------------------------------------------------------------------
(* Authored images.  An image is [descs, ptdelta, dirs]: the descriptor  *)
(* types from sector 16 on, the error of the declared path table size,   *)
(* and the directories in path table order (1 is the root), each with    *)
(* its parent and the children written to each sector of its extent.     *)
(* A child is [name, ver, kind, to, len, sys, dl, bad]: its name and the *)
(* version suffix written after it, "dir" or "file", the directory       *)
(* number or file number it names, a file's length, the system use       *)
(* bytes, the error of the declared record length, and whether the two   *)
(* copies of its length disagree.                                        *)

LE16(n) == <<n % 256, n \div 256>>
BE16(n) == <<n \div 256, n % 256>>
LE32(n) == <<n % 256, (n \div 256) % 256, (n \div 65536) % 256, n \div 16777216>>
BE32(n) == <<n \div 16777216, (n \div 65536) % 256, (n \div 256) % 256, n % 256>>

FirstDescriptor == 16

\* 1 January 2015, 00:00:00, GMT
RecDate == <<115, 1, 1, 0, 0, 0, 0>>

RecBytes(name, loc, len, flags, sys, dl, bad) ==
  LET l2  == Len(name)
      pad == IF l2 % 2 = 0 THEN <<0>> ELSE <<>>
      t   == 33 + l2 + Len(pad) + sys
  IN <<t + dl, 0>> \o LE32(loc) \o BE32(loc)
     \o LE32(len) \o BE32(IF bad THEN len + 1 ELSE len)
     \o RecDate \o <<flags, 0, 0>> \o LE16(1) \o BE16(1)
     \o <<l2>> \o name \o pad \o Rep(sys, 83)

PtLoc(im) == FirstDescriptor + Len(im.descs)

DirSectors(im, i) == Len(im.dirs[i].sectors)

RECURSIVE DirLoc(_, _)
DirLoc(im, i) == IF i = 1 THEN PtLoc(im) + 1 ELSE DirLoc(im, i - 1) + DirSectors(im, i - 1)

DirLen(im, i) == SECTOR_SIZE * DirSectors(im, i)

ImgChildren(im, i) == Flatten(im.dirs[i].sectors)

AllChildren(im) == Flatten([i \in 1..Len(im.dirs) |-> ImgChildren(im, i)])

FileIds(im) == {c.to : c \in {x \in Range(AllChildren(im)) : x.kind = "file"}}

NumFiles(im) == IF FileIds(im) = {} THEN 0 ELSE CHOOSE n \in FileIds(im) : \A m \in FileIds(im) : m <= n

FileLoc(im, k) == DirLoc(im, Len(im.dirs)) + DirSectors(im, Len(im.dirs)) + k - 1

FileData(k, n) == Rep(n, 100 + k)

ChildLoc(im, c) == IF c.kind = "dir" THEN DirLoc(im, c.to) ELSE FileLoc(im, c.to)
ChildLen(im, c) == IF c.kind = "dir" THEN DirLen(im, c.to) ELSE c.len
ChildFlags(c) == IF c.kind = "dir" THEN 2 ELSE 0

ChildBytes(im, c) ==
  RecBytes(c.name \o c.ver, ChildLoc(im, c), ChildLen(im, c), ChildFlags(c), c.sys, c.dl, c.bad)

SelfBytes(im, i) == RecBytes(<<0>>, DirLoc(im, i), DirLen(im, i), 2, 0, 0, FALSE)

ParentBytes(im, i) ==
  LET p == im.dirs[i].parent
  IN RecBytes(<<1>>, DirLoc(im, p), DirLen(im, p), 2, 0, 0, FALSE)

DirSectorBytes(im, i, k) ==
  (IF k = 1 THEN SelfBytes(im, i) \o ParentBytes(im, i) ELSE <<>>)
  \o Flatten([j \in 1..Len(im.dirs[i].sectors[k]) |-> ChildBytes(im, im.dirs[i].sectors[k][j])])

PtEntryBytes(im, i) ==
  LET nm == IF i = 1 THEN <<0>> ELSE im.dirs[i].name
  IN <<Len(nm), 0>> \o LE32(DirLoc(im, i)) \o LE16(im.dirs[i].parent)
     \o nm \o (IF Len(nm) % 2 = 1 THEN <<0>> ELSE <<>>)

PtBytes(im) == Flatten([i \in 1..Len(im.dirs) |-> PtEntryBytes(im, i)])

PtDeclared(im) == Len(PtBytes(im)) + im.ptdelta

CD001 == <<67, 68, 48, 48, 49>>

\* The n-th descriptor: a primary volume descriptor when its type is 1
\* (its volume space size is its own sector number), else only its type
DescBytes(im, n) ==
  IF im.descs[n] # 1 THEN <<im.descs[n]>>
  ELSE <<1>> \o CD001 \o <<1, 0>> \o Rep(32, 32) \o Rep(32, 32) \o Rep(8, 0)
       \o LE32(FirstDescriptor + n - 1) \o BE32(FirstDescriptor + n - 1)
       \o Rep(32, 0)
       \o LE16(1) \o BE16(1) \o LE16(1) \o BE16(1)
       \o LE16(SECTOR_SIZE) \o BE16(SECTOR_SIZE)
       \o LE32(PtDeclared(im)) \o BE32(PtDeclared(im))
       \o LE32(PtLoc(im)) \o LE32(0) \o BE32(PtLoc(im)) \o BE32(0)
       \o SelfBytes(im, 1)

ImgSectors(im) == FileLoc(im, NumFiles(im)) + 1

FileOf(im, k) == CHOOSE c \in Range(AllChildren(im)) : c.kind = "file" /\ c.to = k

\* Which directory's extent, and which sector of it, sector s holds
DirAt(im, s) ==
  UNION {{<<i, k>> : k \in {j \in 1..DirSectors(im, i) : DirLoc(im, i) + j - 1 = s}} :
         i \in 1..Len(im.dirs)}

DiskOf(im) ==
  [s \in 0..(ImgSectors(im) - 1) |->
     IF s < FirstDescriptor THEN <<>>
     ELSE IF s < PtLoc(im) THEN DescBytes(im, s - FirstDescriptor + 1)
     ELSE IF s = PtLoc(im) THEN PtBytes(im)
     ELSE IF DirAt(im, s) # {}
       THEN LET ik == CHOOSE x \in DirAt(im, s) : TRUE IN DirSectorBytes(im, ik[1], ik[2])
     ELSE LET k == s - FileLoc(im, 1) + 1
          IN IF k \in FileIds(im) THEN FileData(k, FileOf(im, k).len) ELSE <<>>]

-----------------------------------------------------------------------------
(* The images the specifications start from *)

SeqsUpTo(S, n) == UNION {[1..k -> S] : k \in 0..n}

File(nm, id, len, sys) ==
  [name |-> nm, ver |-> <<59, 49>>, kind |-> "file", to |-> id, len |-> len,
   sys |-> sys, dl |-> 0, bad |-> FALSE]

SubDir(nm, i) ==
  [name |-> nm, ver |-> <<>>, kind |-> "dir", to |-> i, len |-> 0, sys |-> 0, dl |-> 0, bad |-> FALSE]

Dir(nm, parent, sectors) == [name |-> nm, parent |-> parent, sectors |-> sectors]

Image(descs, ptdelta, dirs) == [descs |-> descs, ptdelta |-> ptdelta, dirs |-> dirs]

\* Children of one sector of a directory extent
MaxPerSector == 2

\* A record whose declared length is 2 short of its fields, name and pad
ShortRec == [File(<<72>>, 3, 1, 0) EXCEPT !.dl = -2]

\* Well-formed children: an odd and an even name length, with and without
\* system use bytes
GoodPool == {File(<<70>>, 1, 3, 0), File(<<71, 71>>, 2, 2, 4)}

RecPool == GoodPool \cup {SubDir(<<65>>, 1), ShortRec}

\* A first sector filled to its last byte: 68 + 7*254 + 202 = 2048
FullSector ==
  [j \in 1..8 |-> [SubDir(<<65>>, 1) EXCEPT !.sys = IF j <= 7 THEN 220 ELSE 168]]

\* Extents of one sector and of two
DirExtents ==
  {<<s>> : s \in SeqsUpTo(RecPool, MaxPerSector)}
  \cup {<<s, t>> : s \in SeqsUpTo(GoodPool, MaxPerSector), t \in SeqsUpTo(GoodPool, MaxPerSector)}
  \cup {<<FullSector, <<File(<<70>>, 1, 3, 0)>>>>}

DirImages == {Image(<<1, 255>>, 0, <<Dir(<<>>, 1, ss)>>) : ss \in DirExtents}

A == <<65>>
B == <<66>>
X == <<88>>
F == <<70>>
G == <<71>>
N == <<78>>

\* /A/G and /F
TreeSimple ==
  <<Dir(<<>>, 1, <<<<SubDir(A, 2), File(F, 1, 3, 0)>>>>),
    Dir(A, 1, <<<<File(G, 2, 2, 0)>>>>)>>

\* /A and /BB, a name of even length
TreeEven ==
  <<Dir(<<>>, 1, <<<<SubDir(A, 2), SubDir(<<66, 66>>, 3)>>>>),
    Dir(A, 1, <<<<>>>>),
    Dir(<<66, 66>>, 1, <<<<>>>>)>>

\* /A/B/F and /X/B/F: two directories of one name
TreeTwins ==
  <<Dir(<<>>, 1, <<<<SubDir(A, 2), SubDir(X, 3)>>>>),
    Dir(A, 1, <<<<SubDir(B, 4)>>>>),
    Dir(X, 1, <<<<SubDir(B, 5)>>>>),
    Dir(B, 2, <<<<File(F, 1, 3, 0)>>>>),
    Dir(B, 3, <<<<File(F, 2, 2, 0)>>>>)>>

\* /B/F and /X/A/B: the name of a top-level directory again further down
TreeDeep ==
  <<Dir(<<>>, 1, <<<<SubDir(B, 2), SubDir(X, 3)>>>>),
    Dir(B, 1, <<<<File(F, 1, 3, 0)>>>>),
    Dir(X, 1, <<<<SubDir(A, 4)>>>>),
    Dir(A, 3, <<<<SubDir(B, 5)>>>>),
    Dir(B, 4, <<<<>>>>)>>

\* The root alone
TreeRoot == <<Dir(<<>>, 1, <<<<>>>>)>>

\* /A/G and /F, the record of G with both-endian fields that disagree
TreeCorrupt ==
  <<Dir(<<>>, 1, <<<<SubDir(A, 2), File(F, 1, 3, 0)>>>>),
    Dir(A, 1, <<<<[File(G, 2, 2, 0) EXCEPT !.bad = TRUE]>>>>)>>

\* /A/G and /F, the root over two sectors
TreeTwoSectors ==
  <<Dir(<<>>, 1, <<<<SubDir(A, 2)>>, <<File(F, 1, 3, 0)>>>>),
    Dir(A, 1, <<<<File(G, 2, 2, 0)>>>>)>>

TreeImages ==
  {Image(<<1, 255>>, 0, t) :
     t \in {TreeSimple, TreeEven, TreeTwins, TreeDeep, TreeRoot, TreeCorrupt, TreeTwoSectors}}

\* Descriptors before the end of the descriptor area
MaxDesc == 3

\* The error of the declared path table size, either way
MaxPtDelta == 10

DescTypes == {1, 2, 255}

DescSeqs == {ds \in SeqsUpTo(DescTypes, MaxDesc) : Len(ds) >= 1}

OpenImages ==
  {Image(ds, 0, TreeSimple) : ds \in DescSeqs}
  \cup {Image(<<1, 255>>, dl, t) : dl \in (0 - MaxPtDelta)..MaxPtDelta, t \in {TreeSimple, TreeEven}}

-----------------------------------------------------------------------------
(* The sector source and the cursor: _get_sector_file, _unpack_raw, _unpack *)

NumSectors == Cardinality(DOMAIN disk)

ByteAtSector(s, o) == IF o < Len(disk[s]) THEN disk[s][o + 1] ELSE 0

NoBuff == [sec |-> 0, len |-> 0, pos |-> 0]

\* _get_sector_file: the working buffer b is replaced by the bytes of
\* f.seek(sector*SECTOR_SIZE); f.read(length), the cursor at their start
get_sector_file(b, sec, length) == [sec |-> sec, len |-> length, pos |-> 0]

\* A fetch that keeps the buffer, cursor and all, when it already holds
\* the range asked for
get_sector_keep(b, sec, length) ==
  IF b.sec = sec /\ b.len = length THEN b ELSE [sec |-> sec, len |-> length, pos |-> 0]

\* self._get_sector as __init__ binds it for a local path
get_sector(b, sec, length) == get_sector_file(b, sec, length)

\* The bytes f.read(length) returned: short at the end of the file
Avail(b) ==
  IF b.sec >= NumSectors THEN 0
  ELSE Min(b.len, (NumSectors - b.sec) * SECTOR_SIZE)

\* The byte at offset k of the buffer
BufByte(b, k) == ByteAtSector(b.sec + (k \div SECTOR_SIZE), k % SECTOR_SIZE)

\* self._buff.read(n) moves the cursor by the bytes there are
unpack_raw(b, n) == [b EXCEPT !.pos = Min(b.pos + Max(n, 0), Avail(b))]

\* The n bytes self._buff.read(n) returns at offset k
RawBytes(b, k, n) == [i \in 1..Min(n, Max(Avail(b) - k, 0)) |-> BufByte(b, k + i - 1)]

\* struct.unpack needs all its bytes
Has(b, k, n) == k + n <= Avail(b)

LEValue(b, k, n) ==
  LET RECURSIVE V(_)
      V(i) == IF i = n THEN 0 ELSE BufByte(b, k + i) + 256 * V(i + 1)
  IN V(0)

BEValue(b, k, n) ==
  LET RECURSIVE V(_, _)
      V(i, acc) == IF i = n THEN acc ELSE V(i + 1, acc * 256 + BufByte(b, k + i))
  IN V(0, 0)

\* _unpack_both: assert a == b
BothAgree(b, k, n) == LEValue(b, k, n) = BEValue(b, k + n, n)

\* _unpack_string(l): read, rstrip
unpack_string(b, k, n) == rstrip(RawBytes(b, k, n))

-----------------------------------------------------------------------------
(* Directory records: _unpack_dir_datetime, _unpack_record *)

DaysInMonth(y, m) ==
  IF m \in {4, 6, 9, 11} THEN 30
  ELSE IF m # 2 THEN 31
  ELSE IF y % 4 = 0 /\ (y % 100 # 0 \/ y % 400 = 0) THEN 29 ELSE 28

\* datetime.datetime accepts the fields (the ones a short read left)
DateFieldsOk(b, k, n) ==
  LET y  == BufByte(b, k) + 1900
      mo == BufByte(b, k + 1)
      d  == BufByte(b, k + 2)
  IN /\ mo >= 1 /\ mo <= 12
     /\ d >= 1 /\ d <= DaysInMonth(y, mo)
     /\ n >= 4 => BufByte(b, k + 3) <= 23
     /\ n >= 5 => BufByte(b, k + 4) <= 59
     /\ n >= 6 => BufByte(b, k + 5) <= 59

\* _unpack_dir_datetime at offset k: the exception it raises, "" if none.
\* It reads 7 bytes; of a short read the last byte is the offset and the
\* others are the date fields.
unpack_dir_datetime(b, k) ==
  LET n == Min(7, Max(Avail(b) - k, 0))
  IN IF n = 0 THEN "struct.error"
     ELSE IF n - 1 < 3 THEN "TypeError"
     ELSE IF ~DateFieldsOk(b, k, n - 1) THEN "ValueError"
     ELSE ""

NoneRec == [isNone |-> TRUE, ex_loc |-> 0, ex_len |-> 0, flags |-> 0, name |-> <<>>]

\* The name of a record: the string up to the first ';', b'\x00' as b''
RecordName(raw) ==
  LET s == split(rstrip(raw), 59)[1]
  IN IF s = <<0>> THEN <<>> ELSE s

RecRaise(e, b, read) == [err |-> e, read |-> read, data |-> NoneRec, buf |-> b]

\* What follows the name length byte: the name, the pad, the system use
\* bytes; the record is returned with read+l0 whatever was consumed.
RecordTail(b, read, p, len0, d) ==
  LET l2   == BufByte(b, p + 32)
      raw  == RawBytes(b, p + 33, l2)
      q    == p + 33 + Len(raw)
      pad  == IF l2 % 2 = 0 THEN 1 ELSE 0
      t    == 34 + l2 - (l2 % 2)
      e    == len0 - t
      b1   == [b EXCEPT !.pos = q + pad]
      b2   == IF e > 0 THEN unpack_raw(b1, e) ELSE b1
  IN IF pad = 1 /\ ~Has(b, q, 1) THEN RecRaise("struct.error", b, read)
     ELSE [err |-> "", read |-> read + len0,
           data |-> [d EXCEPT !.name = RecordName(raw)], buf |-> b2]

\* _unpack_record(read): (read', record or None), at the cursor
unpack_record(b, read) ==
  LET p == b.pos
      len0 == BufByte(b, p)
      d == [isNone |-> FALSE,
            ex_loc |-> LEValue(b, p + 2, 4),
            ex_len |-> LEValue(b, p + 10, 4),
            flags  |-> BufByte(b, p + 25),
            name   |-> <<>>]
      dt == unpack_dir_datetime(b, p + 18)
  IN IF ~Has(b, p, 1) THEN RecRaise("struct.error", b, read)
     ELSE IF len0 = 0
       THEN [err |-> "", read |-> read + 1, data |-> NoneRec,
             buf |-> [b EXCEPT !.pos = p + 1]]
     ELSE IF ~Has(b, p, 10) THEN RecRaise("struct.error", b, read)
     ELSE IF ~BothAgree(b, p + 2, 4) THEN RecRaise("AssertionError", b, read)
     ELSE IF ~Has(b, p, 18) THEN RecRaise("struct.error", b, read)
     ELSE IF ~BothAgree(b, p + 10, 4) THEN RecRaise("AssertionError", b, read)
     ELSE IF dt # "" THEN RecRaise(dt, b, read)
     ELSE IF ~Has(b, p, 32) THEN RecRaise("struct.error", b, read)
     ELSE IF ~BothAgree(b, p + 28, 2) THEN RecRaise("AssertionError", b, read)
     ELSE IF ~Has(b, p, 33) THEN RecRaise("struct.error", b, read)
     ELSE RecordTail(b, read, p, len0, d)

-----------------------------------------------------------------------------
(* _unpack_dir_children: the generator of a directory's children.        *)
(* A generator is [st, sector, read, len]: st is "new" before its first  *)
(* resumption, "run" while suspended at the yield, "done" when exhausted.*)

NoGen == [st |-> "done", sector |-> 0, read |-> 0, len |-> 0]

unpack_dir_children(d) == [st |-> "new", sector |-> d.ex_loc, read |-> 0, len |-> 0]

GenOut(g, b, item, e) == [gen |-> g, buf |-> b, item |-> item, err |-> e]

\* A skip measured from before the marker byte
skip_to_sector_early(read) == SECTOR_SIZE - ((read - 1) % SECTOR_SIZE)

\* to_read: from the byte after a zero length byte to the next sector
skip_to_sector(read) == SECTOR_SIZE - (read % SECTOR_SIZE)

\* The while loop from its test to the next yield, or to its end: at a
\* sector boundary the next sector is fetched, then a record is decoded
RECURSIVE DirLoop(_, _)
\* The loop body once the record r has been decoded: a failure, a zero
\* length byte and the skip to the next sector, or the yield
DirRecord(g, sec, r) ==
  LET g1 == [g EXCEPT !.sector = sec, !.read = r.read, !.st = "run"]
      to_read == skip_to_sector(r.read)
  IN IF r.err # "" THEN GenOut([g1 EXCEPT !.st = "done"], r.buf, NoneRec, r.err)
     ELSE IF r.data.isNone
       THEN DirLoop([g1 EXCEPT !.read = r.read + to_read], unpack_raw(r.buf, to_read))
     ELSE GenOut(g1, r.buf, r.data, "")

DirLoop(g, b) ==
  IF ~(g.read < g.len) THEN GenOut([g EXCEPT !.st = "done"], b, NoneRec, "")
  ELSE IF g.read % SECTOR_SIZE = 0
    THEN DirRecord(g, g.sector + 1,
                   unpack_record(get_sector(b, g.sector + 1, SECTOR_SIZE), g.read))
  ELSE DirRecord(g, g.sector, unpack_record(b, g.read))

\* The generator's first lines: fetch the directory's sector, decode the
\* self and parent records, take the self record's length
DirParent(g, rs, rp) ==
  IF rp.err # "" THEN GenOut([g EXCEPT !.st = "done"], rp.buf, NoneRec, rp.err)
  ELSE IF rs.data.isNone THEN GenOut([g EXCEPT !.st = "done"], rp.buf, NoneRec, "TypeError")
  ELSE DirLoop([g EXCEPT !.st = "run", !.read = rp.read, !.len = rs.data.ex_len], rp.buf)

DirSelf(g, rs) ==
  IF rs.err # "" THEN GenOut([g EXCEPT !.st = "done"], rs.buf, NoneRec, rs.err)
  ELSE DirParent(g, rs, unpack_record(rs.buf, rs.read))

DirEnter(g, b) == DirSelf(g, unpack_record(get_sector(b, g.sector, SECTOR_SIZE), 0))

\* next(generator): item.isNone with err = "" is StopIteration
DirResume(g, b) ==
  IF g.st = "new" THEN DirEnter(g, b)
  ELSE IF g.st = "run" THEN DirLoop(g, b)
  ELSE GenOut(g, b, NoneRec, "")

\* list(generator)
RECURSIVE ListFrom(_, _, _)
ListItem(r, acc) ==
  IF r.err # "" \/ r.item.isNone
    THEN [children |-> acc, err |-> r.err, buf |-> r.buf, read |-> r.gen.read]
  ELSE ListFrom(r.gen, r.buf, Append(acc, r.item))

ListFrom(g, b, acc) == ListItem(DirResume(g, b), acc)

list_dir_children(d, b) == ListFrom(unpack_dir_children(d), b, <<>>)

\* _search_dir_children(d, term): the first child of that name
RECURSIVE SearchFrom(_, _, _)
SearchItem(r, term) ==
  IF r.err # "" THEN [rec |-> NoneRec, err |-> r.err, buf |-> r.buf]
  ELSE IF r.item.isNone THEN [rec |-> NoneRec, err |-> "ISO9660IOError", buf |-> r.buf]
  ELSE IF r.item.name = term THEN [rec |-> r.item, err |-> "", buf |-> r.buf]
  ELSE SearchFrom(r.gen, r.buf, term)

SearchFrom(g, b, term) == SearchItem(DirResume(g, b), term)

search_dir_children(d, b, term) == SearchFrom(unpack_dir_children(d), b, term)

-----------------------------------------------------------------------------
(* __init__: the descriptor scan and the path table load.  The position  *)
(* of the constructor is st.pc: "scan" at the head of the descriptor     *)
(* loop, "ptable" at the head of the path table loop, "ready" when it    *)
(* has returned, "failed" when it has raised st.err.                     *)

NoPvd == [set |-> FALSE, path_table_size |-> 0, path_table_l_loc |-> 0, volume_space_size |-> 0]

\* _unpack_pvd, the cursor just past the type byte of a descriptor sector.
\* The fields are at fixed offsets of the sector; the both-endian ones are
\* asserted as they are read, and the root record is decoded in place.
unpack_pvd(b) ==
  LET r == unpack_record([b EXCEPT !.pos = 156], 0)
      v == [set |-> TRUE,
            path_table_size   |-> LEValue(b, 132, 4),
            path_table_l_loc  |-> LEValue(b, 140, 4),
            volume_space_size |-> LEValue(b, 80, 4)]
      bad == \/ ~BothAgree(b, 80, 4)  \/ ~BothAgree(b, 120, 2) \/ ~BothAgree(b, 124, 2)
             \/ ~BothAgree(b, 128, 2) \/ ~BothAgree(b, 132, 4)
  IN IF ~Has(b, 0, 156) THEN [err |-> "struct.error", pvd |-> NoPvd, root |-> NoneRec, buf |-> b]
     ELSE IF bad THEN [err |-> "AssertionError", pvd |-> NoPvd, root |-> NoneRec, buf |-> b]
     ELSE IF r.err # "" THEN [err |-> r.err, pvd |-> NoPvd, root |-> NoneRec, buf |-> r.buf]
     ELSE IF ~Has(r.buf, r.buf.pos, 692)
       THEN [err |-> "struct.error", pvd |-> NoPvd, root |-> NoneRec, buf |-> r.buf]
     ELSE [err |-> "", pvd |-> v, root |-> r.data, buf |-> unpack_raw(r.buf, 692)]

Raise(st, e) == [st EXCEPT !.pc = "failed", !.err = e]

\* After the break: l0 = self._pvd['path_table_size'] and the fetch of
\* the table
path_table_fetch(st) ==
  IF ~st.pvd.set THEN Raise(st, "KeyError")
  ELSE [st EXCEPT !.pc = "ptable", !.l0 = st.pvd.path_table_size,
                  !.buff = get_sector(st.buff, st.pvd.path_table_l_loc, st.pvd.path_table_size)]

\* A descriptor loop that breaks as soon as it has a primary descriptor
scan_sector_first(st) ==
  LET b  == get_sector(st.buff, st.sector, SECTOR_SIZE)
      s1 == [st EXCEPT !.buff = [b EXCEPT !.pos = 1], !.sector = st.sector + 1,
                       !.fetched = Append(st.fetched, st.sector)]
      ty == BufByte(b, 0)
      u  == unpack_pvd(b)
  IN IF ~Has(b, 0, 1) THEN Raise([s1 EXCEPT !.buff = b], "struct.error")
     ELSE IF ty = 1
       THEN IF u.err # "" THEN Raise([s1 EXCEPT !.buff = u.buf], u.err)
            ELSE path_table_fetch([s1 EXCEPT !.buff = u.buf, !.pvd = u.pvd, !.root = u.root])
     ELSE IF ty = 255 THEN path_table_fetch(s1)
     ELSE s1

\* One turn of the descriptor loop: fetch a sector, read its type
scan_sector(st) ==
  LET b  == get_sector(st.buff, st.sector, SECTOR_SIZE)
      s1 == [st EXCEPT !.buff = [b EXCEPT !.pos = 1], !.sector = st.sector + 1,
                       !.fetched = Append(st.fetched, st.sector)]
      ty == BufByte(b, 0)
      u  == unpack_pvd(b)
  IN IF ~Has(b, 0, 1) THEN Raise([s1 EXCEPT !.buff = b], "struct.error")
     ELSE IF ty = 1
       THEN IF u.err # "" THEN Raise([s1 EXCEPT !.buff = u.buf], u.err)
            ELSE [s1 EXCEPT !.buff = u.buf, !.pvd = u.pvd, !.root = u.root]
     ELSE IF ty = 255 THEN path_table_fetch(s1)
     ELSE s1

\* An entry size that forgets the pad
entry_size_nopad(l1) == 8 + l1

\* A path table entry's size: the 8 fixed bytes, the name, the parity pad
entry_size(l1) == 8 + l1 + (l1 % 2)

\* One turn of the path table loop: decode an entry at the cursor
path_table_entry(st) ==
  LET b   == st.buff
      p   == b.pos
      l1  == BufByte(b, p)
      raw == RawBytes(b, p + 8, l1)
      nm  == rstrip(raw)
      q   == p + 8 + Len(raw)
      e   == [ex_loc |-> LEValue(b, p + 2, 4), parent |-> LEValue(b, p + 6, 2),
              name |-> IF nm = <<0>> THEN <<>> ELSE nm, ex_len |-> 0]
  IN IF ~Has(b, p, 8) THEN Raise(st, "struct.error")
     ELSE IF l1 % 2 = 1 /\ ~Has(b, q, 1) THEN Raise(st, "struct.error")
     ELSE [st EXCEPT !.buff = [b EXCEPT !.pos = q + (l1 % 2)],
                     !.paths = Append(st.paths, e),
                     !.l0 = st.l0 - entry_size(l1)]

\* assert l0 == 0
path_table_end(st) ==
  IF st.l0 = 0 THEN [st EXCEPT !.pc = "ready"] ELSE Raise(st, "AssertionError")

-----------------------------------------------------------------------------
(* tree(get_files): _tree_path over the path table, _tree_node over the  *)
(* directory extents.                                                    *)

\* A _tree_path that does not descend below the entries it yields
tree_path_flat(ps, name, index) ==
  LET RECURSIVE Over(_)
      Over(i) ==
        IF i >= Len(ps) THEN <<>>
        ELSE (IF ps[i + 1].parent = index /\ i # 0
                THEN <<spacer(name, ps[i + 1].name)>>
                ELSE <<>>)
             \o Over(i + 1)
  IN Over(0)

\* _tree_path(name, index): the directories below path table entry index
RECURSIVE tree_path(_, _, _)
tree_path(ps, name, index) ==
  LET RECURSIVE Over(_)
      Over(i) ==
        IF i >= Len(ps) THEN <<>>
        ELSE (IF ps[i + 1].parent = index /\ i # 0
                THEN <<spacer(name, ps[i + 1].name)>>
                     \o tree_path(ps, spacer(name, ps[i + 1].name), i + 1)
                ELSE <<>>)
             \o Over(i + 1)
  IN Over(0)

\* list(tree(False))
tree_dirs(ps) == <<<<47>>>> \o tree_path(ps, <<>>, 1)

\* c['flags'] & 2
IsDir(c) == (c.flags \div 2) % 2 = 1

NoTree == [st |-> "none", frames |-> <<>>, err |-> ""]

NoItem == [path |-> <<>>, isdir |-> FALSE, loc |-> 0, len |-> 0]

\* The value the outermost generator yields for a name yielded in the
\* innermost frame: every frame's spacer applied on the way out
RECURSIVE Wrap(_, _, _)
Wrap(frames, k, v) == IF k = 0 THEN v ELSE Wrap(frames, k - 1, spacer(frames[k].name, v))

TreeOut(st, frames, b, item, e) ==
  [gen |-> [st |-> st, frames |-> frames, err |-> e], buf |-> b, item |-> item]

\* The for loops of the _tree_node frames, from the innermost: the next
\* child of a frame is yielded; a frame with no child left returns to the
\* frame above; the outermost frame's return ends tree().
RECURSIVE tree_next_child(_, _)
tree_next_child(frames, b) ==
  IF frames = <<>> THEN TreeOut("done", <<>>, b, NoItem, "")
  ELSE LET n == Len(frames)
           f == frames[n]
       IN IF f.i < Len(f.children)
            THEN LET c  == f.children[f.i + 1]
                     fr == [frames EXCEPT ![n].i = f.i + 1]
                 IN TreeOut("run", fr, b,
                            [path |-> Wrap(fr, n, c.name), isdir |-> IsDir(c),
                             loc |-> c.ex_loc, len |-> c.ex_len], "")
          ELSE tree_next_child(SubSeq(frames, 1, n - 1), b)

\* _tree_node(node) entered: its children are listed before any is yielded
tree_children(frames, node, l) ==
  IF l.err # "" THEN TreeOut("failed", <<>>, l.buf, NoItem, l.err)
  ELSE tree_next_child(Append(frames, [name |-> node.name, children |-> l.children, i |-> 0]),
                       l.buf)

tree_node(frames, b, node) == tree_children(frames, node, list_dir_children(node, b))

\* next() on tree(True): b'/' first, then the items of _tree_node(root)
\* What next() added to the caller's list
Yielded(r) == r.gen.st \in {"root", "run"}

\* After the yield of child c: into c if it is a directory
tree_after(frames, b, c) ==
  IF IsDir(c) THEN tree_node(frames, b, c) ELSE tree_next_child(frames, b)

tree_resume(g, b, rt) ==
  IF g.st = "none" THEN TreeOut("root", <<>>, b, [NoItem EXCEPT !.path = <<47>>, !.isdir = TRUE], "")
  ELSE IF g.st = "root" THEN tree_node(<<>>, b, rt)
  ELSE tree_after(g.frames, b, g.frames[Len(g.frames)].children[g.frames[Len(g.frames)].i])

\* list(tree(True)) with nothing between two items: the items and how the
\* listing ended
RECURSIVE tree_files(_, _, _, _)
tree_item(r, rt, acc) ==
  tree_files(r.gen, r.buf, rt, IF Yielded(r) THEN Append(acc, r.item) ELSE acc)

tree_files(g, b, rt, acc) ==
  IF g.st \in {"done", "failed"} THEN [items |-> acc, st |-> g.st, err |-> g.err]
  ELSE tree_item(tree_resume(g, b, rt), rt, acc)

-----------------------------------------------------------------------------
(* get_file(path) *)

\* seq[k] as Python indexes a list: from the end when k is negative
PyHas(seq, k) == k < Len(seq) /\ k >= 0 - Len(seq)
PyAt(seq, k) == IF k >= 0 THEN seq[k + 1] ELSE seq[Len(seq) + k + 1]

\* The while loop of _dir_record_by_table for one entry e: "return" when
\* the walk up from e reaches an entry whose parent is 1, "next" when a
\* name differs, "IndexError" when search[-1] or the parent index fails
RECURSIVE table_walk(_, _, _)
table_walk(ps, f, search) ==
  IF search = <<>> THEN "IndexError"
  ELSE IF f.name # search[Len(search)] THEN "next"
  ELSE IF ~PyHas(ps, f.parent - 1) THEN "IndexError"
  ELSE LET up == PyAt(ps, f.parent - 1)
       IN IF up.parent = 1 THEN "return"
          ELSE table_walk(ps, up, SubSeq(search, 1, Len(search) - 1))

\* _dir_record_by_table(path): the entries from the last to the first
RECURSIVE dir_record_by_table(_, _, _)
table_entry(ps, path, n, w) ==
  IF w = "return" THEN [err |-> "", n |-> n]
  ELSE IF w = "next" THEN dir_record_by_table(ps, path, n - 1)
  ELSE [err |-> w, n |-> 0]

dir_record_by_table(ps, path, n) ==
  IF n = 0 THEN [err |-> "ISO9660IOError", n |-> 0]
  ELSE table_entry(ps, path, n, table_walk(ps, ps[n], path))

\* A path table entry where a directory record is expected
AsRecord(e) ==
  [isNone |-> FALSE, ex_loc |-> e.ex_loc, ex_len |-> e.ex_len, flags |-> 0, name |-> e.name]

\* _dir_record_by_root(path): from the root, one search per segment
RECURSIVE dir_record_by_root(_, _, _)
root_step(r, remaining) ==
  IF r.err # ""
    THEN [rec |-> NoneRec, err |-> r.err, errpath |-> Head(remaining), buf |-> r.buf]
  ELSE dir_record_by_root(r.rec, r.buf, Tail(remaining))

dir_record_by_root(current, b, remaining) ==
  IF remaining = <<>> THEN [rec |-> current, err |-> "", errpath |-> <<>>, buf |-> b]
  ELSE root_step(search_dir_children(current, b, Head(remaining)), remaining)

NoGf == [st |-> "none", path |-> <<>>, data |-> <<>>, err |-> "", errpath |-> <<>>, at |-> 0]

GfRaise(path, e, ep, b, ps) ==
  [gf |-> [NoGf EXCEPT !.st = "raised", !.path = path, !.err = e,
                       !.errpath = IF e = "ISO9660IOError" THEN ep ELSE <<>>],
   buf |-> b, paths |-> ps]

\* The names a requested path is looked up by
Normalise(path) == split(strip_slash(upper(path)), 47)

\* self._get_sector(f['ex_loc'], f['ex_len']) done: the bytes are returned
get_file_data(path, ps, n, b) ==
  [gf |-> [NoGf EXCEPT !.st = "ok", !.path = path, !.data = RawBytes(b, b.pos, n)],
   buf |-> unpack_raw(b, n), paths |-> ps]

\* The search of the parent directory done: f is the file's record
get_file_read(path, filename, ps, f) ==
  IF f.err # "" THEN GfRaise(path, f.err, filename, f.buf, ps)
  ELSE get_file_data(path, ps, f.rec.ex_len, get_sector(f.buf, f.rec.ex_loc, f.rec.ex_len))

\* The parent directory looked up: its children are searched for filename
get_file_search(path, filename, ps, parent) ==
  IF parent.err # "" THEN GfRaise(path, parent.err, parent.errpath, parent.buf, ps)
  ELSE get_file_read(path, filename, ps,
                     search_dir_children(parent.rec, parent.buf, filename))

Found(rec, b) == [rec |-> rec, err |-> "", errpath |-> <<>>, buf |-> b]

\* The parent directory: the root, the path table's entry t, or, when the
\* table lookup raised ISO9660IOError, the walk from the root
get_file_parent(path, dirs, filename, b, ps, rt, t) ==
  IF dirs = <<>> THEN get_file_search(path, filename, ps, Found(rt, b))
  ELSE IF t.err = ""
    THEN get_file_search(path, filename, [ps EXCEPT ![t.n].ex_len = SECTOR_SIZE],
                         Found([AsRecord(ps[t.n]) EXCEPT !.ex_len = SECTOR_SIZE], b))
  ELSE IF t.err = "ISO9660IOError"
    THEN get_file_search(path, filename, ps, dir_record_by_root(rt, b, dirs))
  ELSE GfRaise(path, t.err, <<>>, b, ps)

get_file_segs(path, segs, b, ps, rt) ==
  get_file_parent(path, SubSeq(segs, 1, Len(segs) - 1), segs[Len(segs)], b, ps, rt,
                  dir_record_by_table(ps, SubSeq(segs, 1, Len(segs) - 1), Len(ps)))

\* get_file(path): the bytes returned or the exception raised, the buffer
\* and the path table it leaves
get_file(path, b, ps, rt) == get_file_segs(path, Normalise(path), b, ps, rt)

-----------------------------------------------------------------------------
(* What the authored image should decode to *)

\* What a well-formed child decodes to
Decoded(im, c) ==
  [isNone |-> FALSE, ex_loc |-> ChildLoc(im, c), ex_len |-> ChildLen(im, c),
   flags |-> ChildFlags(c), name |-> c.name]

Expected(im, i) ==
  LET cs == ImgChildren(im, i) IN [j \in 1..Len(cs) |-> Decoded(im, cs[j])]

WellFormed(im) == \A c \in Range(AllChildren(im)) : c.dl = 0 /\ ~c.bad

-----------------------------------------------------------------------------
(* Enumerating one directory: SpecDir *)

InitDir ==
  \E im \in DirImages :
    /\ img = im /\ disk = DiskOf(im)
    /\ pc = "dir"
    /\ sector = 0 /\ l0 = 0 /\ fetched = <<>> /\ pvd = NoPvd /\ root = NoneRec
    /\ paths = <<>> /\ buff = NoBuff /\ err = ""
    /\ dgen = unpack_dir_children([NoneRec EXCEPT !.isNone = FALSE, !.ex_loc = DirLoc(im, 1)])
    /\ dout = <<>>
    /\ tgen = NoTree /\ delivered = <<>> /\ dirlist = <<>> /\ gf = NoGf /\ calls = 0

\* next() on the generator of the directory's children
DirNext ==
  /\ pc = "dir" /\ err = "" /\ dgen.st # "done"
  /\ \E r \in {DirResume(dgen, buff)} :
        /\ dgen' = r.gen
        /\ buff' = r.buf
        /\ err' = r.err
        /\ dout' = IF r.err = "" /\ ~r.item.isNone THEN Append(dout, r.item) ELSE dout
  /\ UNCHANGED <<img, disk, pc, sector, l0, fetched, pvd, root, paths,
                 tgen, delivered, dirlist, gf, calls>>

NextDir == DirNext

SpecDir == InitDir /\ [][NextDir]_vars

IsPrefix(s, t) == Len(s) <= Len(t) /\ SubSeq(t, 1, Len(s)) = s

\* C4: the children of a well-formed directory extent are yielded each once,
\* in on-disk order, self and parent left out, across the end-of-sector
\* markers, and the enumeration ends with extent_length bytes consumed.
C4_ChildrenInOrder ==
  (pc = "dir" /\ WellFormed(img)) =>
     /\ err = ""
     /\ IsPrefix(dout, Expected(img, 1))
     /\ dgen.st = "done" => (dout = Expected(img, 1) /\ dgen.read = DirLen(img, 1))

C4_Witness ==
  /\ pc = "dir" /\ WellFormed(img) /\ dgen.st = "done"
  /\ DirSectors(img, 1) = 2
  /\ Len(img.dirs[1].sectors[1]) = 1 /\ Len(img.dirs[1].sectors[2]) = 2
  /\ Len(dout) = 3

HasShort(im) == \E c \in Range(ImgChildren(im, 1)) : c.dl < 0

\* C8: a directory record whose declared length is nonzero but smaller
\* than its fixed fields, name and pad aborts the enumeration with an
\* error: it is never yielded as a child.
C8_ShortRecordAborts ==
  (pc = "dir" /\ HasShort(img)) =>
     \A k \in 1..Len(dout) : dout[k] # Decoded(img, ShortRec)

\* The short record has been yielded and the enumeration has gone on to
\* its end without an error
C8_Witness ==
  /\ pc = "dir" /\ HasShort(img) /\ err = "" /\ dgen.st = "done"
  /\ \E k \in 1..Len(dout) : dout[k] = Decoded(img, ShortRec)

-----------------------------------------------------------------------------
(* Opening an image: SpecOpen *)

InitOpen ==
  \E im \in OpenImages :
    /\ img = im /\ disk = DiskOf(im)
    /\ pc = "scan" /\ sector = FirstDescriptor
    /\ l0 = 0 /\ fetched = <<>> /\ pvd = NoPvd /\ root = NoneRec
    /\ paths = <<>> /\ buff = NoBuff /\ err = ""
    /\ dgen = NoGen /\ dout = <<>>
    /\ tgen = NoTree /\ delivered = <<>> /\ dirlist = <<>> /\ gf = NoGf /\ calls = 0

ISOState ==
  [pc |-> pc, sector |-> sector, l0 |-> l0, fetched |-> fetched, pvd |-> pvd,
   root |-> root, paths |-> paths, buff |-> buff, err |-> err]

SetISO(new) ==
  \E st \in {new} :
    /\ pc' = st.pc /\ sector' = st.sector /\ l0' = st.l0 /\ fetched' = st.fetched
    /\ pvd' = st.pvd /\ root' = st.root /\ paths' = st.paths /\ buff' = st.buff
    /\ err' = st.err
    /\ UNCHANGED <<img, disk, dgen, dout, tgen, delivered, dirlist, gf, calls>>

ScanSector == pc = "scan" /\ SetISO(scan_sector(ISOState))

PathTableEntry == pc = "ptable" /\ l0 > 0 /\ SetISO(path_table_entry(ISOState))

PathTableEnd == pc = "ptable" /\ l0 <= 0 /\ SetISO(path_table_end(ISOState))

NextOpen == ScanSector \/ PathTableEntry \/ PathTableEnd

SpecOpen == InitOpen /\ [][NextOpen]_vars

\* The descriptors up to the first terminator
FirstTerm(ds) == CHOOSE n \in 1..Len(ds) : ds[n] = 255 /\ \A m \in 1..(n - 1) : ds[m] # 255

HasTerm(ds) == \E n \in 1..Len(ds) : ds[n] = 255

PvdBefore(ds) == {n \in 1..(FirstTerm(ds) - 1) : ds[n] = 1}

LastPvd(ds) == CHOOSE n \in PvdBefore(ds) : \A m \in PvdBefore(ds) : m <= n

RootRecord(im) ==
  [isNone |-> FALSE, ex_loc |-> DirLoc(im, 1), ex_len |-> DirLen(im, 1), flags |-> 2, name |-> <<>>]

\* C6: on an image with a terminator descriptor the scan fetches sectors
\* 16, 17, ... in order, ends at the first terminator and fetches nothing
\* after it; with a type 1 descriptor before the terminator, one primary
\* volume descriptor and its root record are held when the scan has ended
\* (of several type 1 descriptors, the last one read).
C6_ScanEndsAtTerminator ==
  HasTerm(img.descs) =>
    LET T == FirstTerm(img.descs)
        all == [i \in 1..T |-> FirstDescriptor + i - 1]
    IN /\ IsPrefix(fetched, all)
       /\ pc = "scan" => Len(fetched) < T
       /\ pc # "scan" =>
            /\ fetched = all
            /\ IF PvdBefore(img.descs) # {}
                 THEN /\ pvd.set
                      /\ pvd.volume_space_size = FirstDescriptor + LastPvd(img.descs) - 1
                      /\ pvd.path_table_size = PtDeclared(img)
                      /\ pvd.path_table_l_loc = PtLoc(img)
                      /\ root = RootRecord(img)
                 ELSE ~pvd.set /\ pc = "failed" /\ err = "KeyError"

C6_Witness ==
  /\ pc = "ready" /\ img.descs = <<2, 1, 255>> /\ fetched = <<16, 17, 18>> /\ pvd.set

\* The sectors a guarded scan would fetch at most
ScanCeiling == 4

\* C9: with no terminator descriptor from sector 16 on, the scan gives up
\* after a fixed number of sectors.
C9_ScanCeiling ==
  (~HasTerm(img.descs) /\ pc \in {"scan", "failed"}) => Len(fetched) <= ScanCeiling

\* The entry boundaries of the authored table
RECURSIVE PtBoundary(_, _)
PtBoundary(im, n) == IF n = 0 THEN 0 ELSE PtBoundary(im, n - 1) + Len(PtEntryBytes(im, n))

PtEntries(im, n) ==
  [i \in 1..n |-> [ex_loc |-> DirLoc(im, i), parent |-> im.dirs[i].parent,
                   name |-> IF i = 1 THEN <<>> ELSE im.dirs[i].name, ex_len |-> 0]]

Loaded == pc \in {"ready", "failed"} /\ pvd.set /\ HasTerm(img.descs)

\* C5 as claimed: a declared size that matches the entries is consumed
\* exactly, and any other declared size fails the construction.
C5_MismatchFails ==
  Loaded =>
    IF img.ptdelta = 0
      THEN pc = "ready" /\ buff.pos = pvd.path_table_size
           /\ paths = PtEntries(img, Len(img.dirs))
      ELSE pc = "failed" /\ err \in {"struct.error", "AssertionError"}

\* The entries a declared size of d bytes decodes to, if it ends on a
\* boundary: authored entries, then one empty entry per 8 zero bytes
PhantomEntry == [ex_loc |-> 0, parent |-> 0, name |-> <<>>, ex_len |-> 0]

OnBoundary(im, d) ==
  \/ \E n \in 0..Len(im.dirs) : d = PtBoundary(im, n)
  \/ d > Len(PtBytes(im)) /\ (d - Len(PtBytes(im))) % 8 = 0

EntriesWithin(im, d) ==
  IF d <= Len(PtBytes(im))
    THEN PtEntries(im, CHOOSE n \in 0..Len(im.dirs) : d = PtBoundary(im, n))
    ELSE PtEntries(im, Len(im.dirs)) \o Rep((d - Len(PtBytes(im))) \div 8, PhantomEntry)

\* C5 amended: the construction succeeds exactly when the declared size
\* ends on an entry boundary of the bytes it covers (an authored entry's
\* end, or a multiple of 8 zero bytes past the table, each decoding as an
\* entry with an empty name); it has then consumed path_table_size bytes
\* exactly.  Any other declared size fails with struct.error (a short
\* read) or AssertionError (the final check).
C5_BoundaryOrFail ==
  Loaded =>
    IF OnBoundary(img, PtDeclared(img))
      THEN pc = "ready" /\ buff.pos = pvd.path_table_size
           /\ paths = EntriesWithin(img, PtDeclared(img))
      ELSE pc = "failed" /\ err \in {"struct.error", "AssertionError"}

C5_Witness ==
  /\ Loaded /\ pc = "failed" /\ err = "AssertionError" /\ img.ptdelta = -1

-----------------------------------------------------------------------------
(* Listing and reading an opened image: Spec *)

\* get_file calls in one behaviour
MaxCalls == 2

\* The names from the root down to directory i
RECURSIVE DirSegs(_, _)
DirSegs(im, i) ==
  IF i = 1 THEN <<>> ELSE Append(DirSegs(im, im.dirs[i].parent), im.dirs[i].name)

PathBytes(segs) ==
  IF segs = <<>> THEN <<47>> ELSE Flatten([k \in 1..Len(segs) |-> <<47>> \o segs[k]])

\* Every entry of the authored tree, by the names that lead to it
Entries(im) ==
  UNION {{[segs |-> Append(DirSegs(im, i), c.name), c |-> c] :
            c \in Range(ImgChildren(im, i))} : i \in 1..Len(im.dirs)}

FileSegs(im) == {e.segs : e \in {x \in Entries(im) : x.c.kind = "file"}}

lower(s) == [i \in 1..Len(s) |-> IF s[i] >= 65 /\ s[i] <= 90 THEN s[i] + 32 ELSE s[i]]

\* The paths asked for: each file, each file in lower case, each file path
\* with one name replaced by a name the image does not have, a path that
\* goes on below a file, and a name missing from the root
RequestPaths(im) ==
  {PathBytes(s) : s \in FileSegs(im)}
  \cup {lower(PathBytes(s)) : s \in FileSegs(im)}
  \cup UNION {{PathBytes([s EXCEPT ![k] = N]) : k \in 1..Len(s)} : s \in FileSegs(im)}
  \cup {PathBytes(Append(s, G)) : s \in FileSegs(im)}
  \cup {PathBytes(<<N>>)}

Exists(im, path) == Normalise(path) \in {e.segs : e \in Entries(im)}

\* ISO9660(url) is called on one of the images
Init ==
  \E im \in TreeImages :
    /\ img = im /\ disk = DiskOf(im)
    /\ pc = "scan" /\ sector = FirstDescriptor
    /\ l0 = 0 /\ fetched = <<>> /\ pvd = NoPvd /\ root = NoneRec
    /\ paths = <<>> /\ buff = NoBuff /\ err = ""
    /\ dgen = NoGen /\ dout = <<>>
    /\ tgen = NoTree /\ delivered = <<>> /\ dirlist = <<>> /\ gf = NoGf /\ calls = 0

\* next() on tree(True)
TreeNext ==
  /\ pc = "ready" /\ tgen.st \notin {"done", "failed"}
  /\ \E r \in {tree_resume(tgen, buff, root)} :
        /\ tgen' = r.gen
        /\ buff' = r.buf
        /\ delivered' = IF Yielded(r) THEN Append(delivered, r.item) ELSE delivered
  /\ UNCHANGED <<img, disk, pc, sector, l0, fetched, pvd, root, paths, err,
                 dgen, dout, dirlist, gf, calls>>

\* list(tree(False))
TreeDirs ==
  /\ pc = "ready" /\ dirlist = <<>>
  /\ dirlist' = tree_dirs(paths)
  /\ UNCHANGED <<img, disk, pc, sector, l0, fetched, pvd, root, paths, buff, err,
                 dgen, dout, tgen, delivered, gf, calls>>

\* get_file(path), from its call to its return or its exception
GetFile ==
  /\ pc = "ready" /\ calls < MaxCalls
  /\ \E path \in RequestPaths(img) :
       \E r \in {get_file(path, buff, paths, root)} :
          /\ gf' = [r.gf EXCEPT !.at = Len(delivered)]
          /\ buff' = r.buf
          /\ paths' = r.paths
  /\ calls' = calls + 1
  /\ UNCHANGED <<img, disk, pc, sector, l0, fetched, pvd, root, err,
                 dgen, dout, tgen, delivered, dirlist>>

Next == ScanSector \/ PathTableEntry \/ PathTableEnd \/ TreeNext \/ TreeDirs \/ GetFile

Spec == Init /\ [][Next]_vars

\* The bytes the image holds from sector loc on
DiskBytes(loc, n) == [i \in 1..n |-> ByteAtSector(loc + ((i - 1) \div SECTOR_SIZE), (i - 1) % SECTOR_SIZE)]

Paths(items) == {d.path : d \in Range(items)}

\* C1: get_file on a path that tree(True) has yielded for a file returns,
\* without an error, the extent_length bytes at that file's own extent.
C1_RoundTrip ==
  \A k \in 1..Len(delivered) :
    (~delivered[k].isdir /\ gf.st # "none" /\ gf.path = delivered[k].path) =>
       /\ gf.st = "ok"
       /\ gf.data = DiskBytes(delivered[k].loc, delivered[k].len)

\* C2: get_file on a path that names no entry of the image raises the
\* path-not-found error, carrying the path as it was requested.
C2_NotFound ==
  (gf.st # "none" /\ ~Exists(img, gf.path)) =>
     /\ gf.st = "raised"
     /\ gf.err = "ISO9660IOError"
     /\ gf.errpath = gf.path

\* C3 as claimed: the paths of tree(False) are a strict subset of the paths
\* of tree(True), and are its root and its entries with the directory flag.
C3_StrictSubset ==
  (tgen.st = "done" /\ dirlist # <<>>) =>
     /\ Range(dirlist) \subseteq Paths(delivered)
     /\ Range(dirlist) # Paths(delivered)
     /\ Range(dirlist) = {d.path : d \in {x \in Range(delivered) : x.isdir}}

\* C3 amended: the paths of tree(False) are a subset of the paths of
\* tree(True), equal to its root and its entries with the directory flag;
\* the subset is strict exactly when tree(True) has yielded a file.
C3_SubsetOfDirs ==
  (tgen.st = "done" /\ dirlist # <<>>) =>
     /\ Range(dirlist) \subseteq Paths(delivered)
     /\ Range(dirlist) = {d.path : d \in {x \in Range(delivered) : x.isdir}}
     /\ Range(dirlist) # Paths(delivered) <=> \E d \in Range(delivered) : ~d.isdir

\* Both listings of an image of directories only: the same paths
C3_Witness ==
  /\ tgen.st = "done" /\ Len(dirlist) > 1
  /\ Range(dirlist) = Paths(delivered)

\* C7: a listing that fails has delivered none of its paths.
C7_AllOrNothing == tgen.st = "failed" => delivered = <<>>

\* C10: with get_file calls run to completion between its items, the
\* listing yields the sequence of an uninterrupted listing and ends as
\* that one ends.
C10_ListingUnaffected ==
  pc = "ready" =>
    LET u == tree_files(NoTree, NoBuff, root, <<>>)
    IN /\ IsPrefix(delivered, u.items)
       /\ tgen.st \in {"done", "failed"} =>
            (delivered = u.items /\ tgen.st = u.st /\ tgen.err = u.err)

\* A listing that has ended, a get_file call having searched, between two
\* of its items, the directory the listing went on to enter
C10_Witness ==
  /\ tgen.st = "done"
  /\ gf.st = "raised" /\ gf.err = "ISO9660IOError"
  /\ gf.at > 1 /\ gf.at < Len(delivered)
  /\ delivered[gf.at].isdir
  /\ gf.path = delivered[gf.at].path \o <<47>> \o N

=============================================================================
